---- MODULE Spec2Model ----
(***************************************************************************)
(* Dignity resolution of the Human Design subsystem                        *)
(* (src/src/cartographer/features/dignity.py).                             *)
(*                                                                         *)
(* Encoding of Python values:                                              *)
(*   Optional[T]   <<>> is None, <<x>> is the value x                      *)
(*   str (planet)  a sequence of one-character strings                     *)
(*   str(int)      the sequence of decimal digits of the integer           *)
(*   dict          a function; a record of the data file is a function on  *)
(*                 its four keys whose value is <<>> when the key is       *)
(*                 missing from the JSON object and <<v>> when it is there *)
(*   list[str]     the set of its elements (the code only tests `in`)      *)
(***************************************************************************)
EXTENDS Integers, Sequences, FiniteSets, TLC

VARIABLES
    cache,      \* _dignity_data_cache: None or the loaded mapping
    resource,   \* exaltations_detriments.json: None when it cannot be read or parsed
    op,         \* the operation that ran last
    args,       \* the arguments of the last calculate_dignity call
    result,     \* outcome of the last calculate_dignity call, None before the first
    used_data,  \* the mapping that call looked the (gate, line) up in, if it got there
    load_ret,   \* outcome of the last direct load_dignity_data call, None before the first
    load_calls, \* number of load_dignity_data calls made by the last operation
    opened,     \* number of times the last operation opened the resource
    harmonic_arg,   \* the gate of the last get_harmonic_gate call, None before the first
    harmonic_ret,   \* what that call returned: None or the partner gate
    pc,         \* concurrent callers of load_dignity_data: where each one is
    local,      \* what each caller's json.load returned
    ret,        \* what each caller's call returned, None while it runs
    saw_unset,  \* whether the caller found the cache unset at line 48
    writes,     \* number of assignments to _dignity_data_cache so far
    changed     \* whether the resource changed while callers were running

channel_vars == <<harmonic_arg, harmonic_ret>>

race_vars == <<pc, local, ret, saw_unset, writes, changed>>

vars == <<cache, resource, op, args, result, used_data, load_ret, load_calls, opened,
          harmonic_arg, harmonic_ret, pc, local, ret, saw_unset, writes, changed>>

None == <<>>
Some(x) == <<x>>

(***************************************************************************)
(* Bounds                                                                  *)
(***************************************************************************)
\* largest number of entries of one planet list of a record
MaxListLen == 2

\* get_harmonic_gate is called with the gates 0..MaxGateInput
MaxGateInput == 99

\* number of concurrent callers of load_dignity_data
NumThreads == 2

(***************************************************************************)
(* Planet names                                                            *)
(***************************************************************************)
Sun == <<"S", "u", "n">>
Earth == <<"E", "a", "r", "t", "h">>
North_Node == <<"N", "o", "r", "t", "h", "_", "N", "o", "d", "e">>
NorthNodeSp == <<"N", "o", "r", "t", "h", " ", "N", "o", "d", "e">>
EmptyName == <<>>

\* names that occur in the planet lists of the data file
ListVocabulary == {Sun, North_Node, NorthNodeSp}

\* names a caller passes; Earth is in no list of the modelled records
PlanetInputs == {Sun, North_Node, NorthNodeSp, Earth, EmptyName}

normalize_identity(planet) == planet

normalize_planet_name(planet) ==
    [i \in 1..Len(planet) |-> IF planet[i] = "_" THEN " " ELSE planet[i]]

\* Python truthiness of an Optional[str]: None and "" are false
Truthy(opt) == opt # None /\ opt[1] # EmptyName

(***************************************************************************)
(* str(gate), str(line)                                                    *)
(***************************************************************************)
Str(n) == IF n < 10 THEN <<n>> ELSE <<n \div 10, n % 10>>

(***************************************************************************)
(* The data store                                                          *)
(***************************************************************************)
EmptyStore == <<>>

PlanetLists == {s \in SUBSET ListVocabulary : Cardinality(s) <= MaxListLen}

OptPlanetLists == {None} \cup {Some(s) : s \in PlanetLists}

Records == [no_polarity : {None, Some(TRUE), Some(FALSE)},
            exaltation_planets : OptPlanetLists,
            detriment_planets : OptPlanetLists,
            juxtaposition_planets : OptPlanetLists]

\* dict.get(key, default)
Get(d, key, default) == IF d[key] = None THEN default ELSE d[key][1]

\* {"<g>": {"<l>": rec}}
StoreOf(g, l, rec) == Str(g) :> (Str(l) :> rec)

\* {"<g>": {}}
GateOnlyStore(g) == Str(g) :> EmptyStore

(***************************************************************************)
(* load_dignity_data, as a function of the cache and the resource          *)
(***************************************************************************)
load_never_caches(c, r) ==
    IF c # None
    THEN [ret |-> c[1], raised |-> FALSE, cache |-> c, opened |-> 0]
    ELSE IF r # None
         THEN [ret |-> r[1], raised |-> FALSE, cache |-> c, opened |-> 1]
         ELSE [ret |-> EmptyStore, raised |-> FALSE, cache |-> c, opened |-> 1]

load_propagates_failure(c, r) ==
    IF c # None
    THEN [ret |-> c[1], raised |-> FALSE, cache |-> c, opened |-> 0]
    ELSE IF r # None
         THEN [ret |-> r[1], raised |-> FALSE, cache |-> Some(r[1]), opened |-> 1]
         ELSE [ret |-> EmptyStore, raised |-> TRUE, cache |-> c, opened |-> 1]

load_caches_failure(c, r) ==
    IF c # None
    THEN [ret |-> c[1], raised |-> FALSE, cache |-> c, opened |-> 0]
    ELSE IF r # None
         THEN [ret |-> r[1], raised |-> FALSE, cache |-> Some(r[1]), opened |-> 1]
         ELSE [ret |-> EmptyStore, raised |-> FALSE, cache |-> Some(EmptyStore), opened |-> 1]

\* lines 47-58, run without interruption: ret is the mapping returned, raised
\* tells whether an exception left the function instead (the try of lines
\* 51-58 catches every Exception), cache the cache afterwards, opened the
\* number of times the resource was opened
load_dignity_data(c, r) ==
    IF c # None
    THEN [ret |-> c[1], raised |-> FALSE, cache |-> c, opened |-> 0]
    ELSE IF r # None
         THEN [ret |-> r[1], raised |-> FALSE, cache |-> Some(r[1]), opened |-> 1]
         ELSE [ret |-> EmptyStore, raised |-> FALSE, cache |-> c, opened |-> 1]

(***************************************************************************)
(* calculate_dignity                                                       *)
(***************************************************************************)
verdict_without_null_triggers(state, active_trigger, harmonic_trigger, details) ==
    [k \in {"state", "details"}
            \cup (IF active_trigger = None THEN {} ELSE {"active_trigger"})
            \cup (IF harmonic_trigger = None THEN {} ELSE {"harmonic_trigger"}) |->
        CASE k = "state" -> state
          [] k = "details" -> details
          [] k = "active_trigger" -> active_trigger
          [] k = "harmonic_trigger" -> harmonic_trigger]

\* the dictionary every return statement builds
Verdict(state, active_trigger, harmonic_trigger, details) ==
    [state |-> state,
     active_trigger |-> active_trigger,
     harmonic_trigger |-> harmonic_trigger,
     details |-> details]

\* outcome of a call: a returned value or a raised exception
Return(v) == <<"return", v>>
Raise(e) == <<"raise", e>>

\* `planet in xs`
InList(planet, xs) == planet \in xs

harmonic_in_list_ignored(harmonic_planet, xs) == FALSE

\* `harmonic_planet and harmonic_planet in xs`, as a truth value
HarmonicInList(harmonic_planet, xs) ==
    Truthy(harmonic_planet) /\ InList(harmonic_planet[1], xs)

star_glyph_harmonic_first(active_planet, harmonic_planet, juxtaposition_planets) ==
    IF HarmonicInList(harmonic_planet, juxtaposition_planets)
    THEN Some(Verdict("juxtaposed", None, harmonic_planet,
                      "Star glyph via harmonic planet"))
    ELSE IF InList(active_planet, juxtaposition_planets)
    THEN Some(Verdict("juxtaposed", Some(active_planet), None,
                      "Star glyph (explicit juxtaposition)"))
    ELSE None

star_glyph_active_only(active_planet, harmonic_planet, juxtaposition_planets) ==
    IF InList(active_planet, juxtaposition_planets)
    THEN Some(Verdict("juxtaposed", Some(active_planet), None,
                      "Star glyph (explicit juxtaposition)"))
    ELSE None

\* Scenario A, lines 173-188: the verdict it returns, None when it falls through
star_glyph(active_planet, harmonic_planet, juxtaposition_planets) ==
    IF InList(active_planet, juxtaposition_planets)
    THEN Some(Verdict("juxtaposed", Some(active_planet), None,
                      "Star glyph (explicit juxtaposition)"))
    ELSE IF HarmonicInList(harmonic_planet, juxtaposition_planets)
    THEN Some(Verdict("juxtaposed", None, harmonic_planet,
                      "Star glyph via harmonic planet"))
    ELSE None

double_fixing_one_way(active_exalted, active_detriment, harmonic_exalted, harmonic_detriment) ==
    active_exalted /\ harmonic_detriment

double_fixing_any_pair(active_exalted, active_detriment, harmonic_exalted, harmonic_detriment) ==
    (active_exalted \/ harmonic_exalted) /\ (active_detriment \/ harmonic_detriment)

\* Scenario B, the condition of line 198
double_fixing(active_exalted, active_detriment, harmonic_exalted, harmonic_detriment) ==
    (active_exalted /\ harmonic_detriment) \/ (active_detriment /\ harmonic_exalted)

trigger_always_active(active_side, active_planet, harmonic_planet) ==
    Some(active_planet)

\* lines 229 and 238: `active_planet if active_<polarity> else harmonic_planet`
single_trigger(active_side, active_planet, harmonic_planet) ==
    IF active_side THEN Some(active_planet) ELSE harmonic_planet

polarity_states_detriment_first(active_planet, harmonic_planet, exaltation_planets, detriment_planets) ==
    LET active_exalted == InList(active_planet, exaltation_planets)
        active_detriment == InList(active_planet, detriment_planets)
        harmonic_exalted == HarmonicInList(harmonic_planet, exaltation_planets)
        harmonic_detriment == HarmonicInList(harmonic_planet, detriment_planets)
        has_exaltation == active_exalted \/ harmonic_exalted
        has_detriment == active_detriment \/ harmonic_detriment
    IN  IF double_fixing(active_exalted, active_detriment,
                         harmonic_exalted, harmonic_detriment)
        THEN Verdict("juxtaposed", Some(active_planet), harmonic_planet,
                     "Double fixing (opposite polarities)")
        ELSE IF has_exaltation /\ has_detriment
        THEN IF active_detriment
             THEN Verdict("detriment", Some(active_planet),
                          IF harmonic_detriment THEN harmonic_planet ELSE None,
                          "Multiple planets same polarity (detriment)")
             ELSE Verdict("exalted", Some(active_planet),
                          IF harmonic_exalted THEN harmonic_planet ELSE None,
                          "Multiple planets same polarity (exalted)")
        ELSE IF has_exaltation
        THEN Verdict("exalted",
                     single_trigger(active_exalted, active_planet, harmonic_planet),
                     None,
                     IF active_exalted THEN "Exalted via active planet"
                                       ELSE "Exalted via harmonic planet")
        ELSE IF has_detriment
        THEN Verdict("detriment",
                     single_trigger(active_detriment, active_planet, harmonic_planet),
                     None,
                     IF active_detriment THEN "Detriment via active planet"
                                         ELSE "Detriment via harmonic planet")
        ELSE Verdict("neutral", None, None, "No dignity triggers")

\* lines 190-252: active_planet is a normalized name, harmonic_planet an
\* Optional normalized name
polarity_states(active_planet, harmonic_planet, exaltation_planets, detriment_planets) ==
    LET active_exalted == InList(active_planet, exaltation_planets)
        active_detriment == InList(active_planet, detriment_planets)
        harmonic_exalted == HarmonicInList(harmonic_planet, exaltation_planets)
        harmonic_detriment == HarmonicInList(harmonic_planet, detriment_planets)
        has_exaltation == active_exalted \/ harmonic_exalted
        has_detriment == active_detriment \/ harmonic_detriment
    IN  IF double_fixing(active_exalted, active_detriment,
                         harmonic_exalted, harmonic_detriment)
        THEN Verdict("juxtaposed", Some(active_planet), harmonic_planet,
                     "Double fixing (opposite polarities)")
        ELSE IF has_exaltation /\ has_detriment
        THEN IF active_exalted
             THEN Verdict("exalted", Some(active_planet),
                          IF harmonic_exalted THEN harmonic_planet ELSE None,
                          "Multiple planets same polarity (exalted)")
             ELSE Verdict("detriment", Some(active_planet),
                          IF harmonic_detriment THEN harmonic_planet ELSE None,
                          "Multiple planets same polarity (detriment)")
        ELSE IF has_exaltation
        THEN Verdict("exalted",
                     single_trigger(active_exalted, active_planet, harmonic_planet),
                     None,
                     IF active_exalted THEN "Exalted via active planet"
                                       ELSE "Exalted via harmonic planet")
        ELSE IF has_detriment
        THEN Verdict("detriment",
                     single_trigger(active_detriment, active_planet, harmonic_planet),
                     None,
                     IF active_detriment THEN "Detriment via active planet"
                                         ELSE "Detriment via harmonic planet")
        ELSE Verdict("neutral", None, None, "No dignity triggers")

cascade_glyph_first(line_data, active_planet0, harmonic_planet0) ==
    LET active_planet == normalize_planet_name(active_planet0)
        harmonic_planet == IF Truthy(harmonic_planet0)
                           THEN Some(normalize_planet_name(harmonic_planet0[1]))
                           ELSE harmonic_planet0
        glyph == star_glyph(active_planet, harmonic_planet,
                            Get(line_data, "juxtaposition_planets", {}))
    IN  IF glyph # None
        THEN glyph[1]
        ELSE IF Get(line_data, "no_polarity", FALSE)
        THEN Verdict("neutral", None, None, "No polarity line")
        ELSE polarity_states(active_planet, harmonic_planet,
                             Get(line_data, "exaltation_planets", {}),
                             Get(line_data, "detriment_planets", {}))

\* lines 152-252: the cascade over the record of the (gate, line)
cascade(line_data, active_planet0, harmonic_planet0) ==
    LET active_planet == normalize_planet_name(active_planet0)
        harmonic_planet == IF Truthy(harmonic_planet0)
                           THEN Some(normalize_planet_name(harmonic_planet0[1]))
                           ELSE harmonic_planet0
        exaltation_planets == Get(line_data, "exaltation_planets", {})
        detriment_planets == Get(line_data, "detriment_planets", {})
        juxtaposition_planets == Get(line_data, "juxtaposition_planets", {})
        glyph == star_glyph(active_planet, harmonic_planet, juxtaposition_planets)
    IN  IF Get(line_data, "no_polarity", FALSE)
        THEN Verdict("neutral", None, None, "No polarity line")
        ELSE IF glyph # None
        THEN glyph[1]
        ELSE polarity_states(active_planet, harmonic_planet,
                             exaltation_planets, detriment_planets)

resolve_and_for_or(gate, line, active_planet, harmonic_gate, harmonic_planet, dignity_data) ==
    LET gate_str == Str(gate)
        line_str == Str(line)
    IN  IF gate_str \notin DOMAIN dignity_data
        THEN Raise("KeyError")
        ELSE IF line_str \notin DOMAIN dignity_data[gate_str]
        THEN Raise("KeyError")
        ELSE Return(cascade(dignity_data[gate_str][line_str],
                            active_planet, harmonic_planet))

resolve_requires_harmonic_gate(gate, line, active_planet, harmonic_gate, harmonic_planet, dignity_data) ==
    LET gate_str == Str(gate)
        line_str == Str(line)
    IN  IF gate_str \notin DOMAIN dignity_data
           \/ line_str \notin DOMAIN dignity_data[gate_str]
        THEN Return(Verdict("neutral", None, None,
                            "No dignity data for this gate.line"))
        ELSE Return(cascade(dignity_data[gate_str][line_str],
                            active_planet,
                            IF harmonic_gate = None THEN None ELSE harmonic_planet))

\* lines 140-252: dignity_data is a mapping, gate and line are integers
resolve(gate, line, active_planet, harmonic_gate, harmonic_planet, dignity_data) ==
    LET gate_str == Str(gate)
        line_str == Str(line)
    IN  IF gate_str \notin DOMAIN dignity_data
           \/ line_str \notin DOMAIN dignity_data[gate_str]
        THEN Return(Verdict("neutral", None, None,
                            "No dignity data for this gate.line"))
        ELSE Return(cascade(dignity_data[gate_str][line_str],
                            active_planet, harmonic_planet))

calculate_dignity_load_first(a, c, r) ==
    LET l == load_dignity_data(c, r)
        data == IF a.dignity_data = None THEN l.ret ELSE a.dignity_data[1]
    IN  IF a.gate = None \/ a.line = None
        THEN [outcome |-> Return(Verdict("neutral", None, None, "Invalid gate or line")),
              data |-> None,
              cache |-> IF a.dignity_data = None THEN l.cache ELSE c,
              load_calls |-> IF a.dignity_data = None THEN 1 ELSE 0,
              opened |-> IF a.dignity_data = None THEN l.opened ELSE 0]
        ELSE [outcome |-> resolve(a.gate[1], a.line[1], a.active_planet,
                                  a.harmonic_gate, a.harmonic_planet, data),
              data |-> Some(data),
              cache |-> IF a.dignity_data = None THEN l.cache ELSE c,
              load_calls |-> IF a.dignity_data = None THEN 1 ELSE 0,
              opened |-> IF a.dignity_data = None THEN l.opened ELSE 0]

\* the whole function: a is the record of the six arguments (dignity_data is
\* None when omitted), c the cache and r the resource at the call.  data is
\* the local dignity_data after line 138, None when the call returned before.
calculate_dignity(a, c, r) ==
    IF a.gate = None \/ a.line = None
    THEN [outcome |-> Return(Verdict("neutral", None, None, "Invalid gate or line")),
          data |-> None, cache |-> c, load_calls |-> 0, opened |-> 0]
    ELSE IF a.dignity_data = None
    THEN LET l == load_dignity_data(c, r)
         IN  IF l.raised
             THEN [outcome |-> Raise("Exception"), data |-> None,
                   cache |-> l.cache, load_calls |-> 1, opened |-> l.opened]
             ELSE [outcome |-> resolve(a.gate[1], a.line[1], a.active_planet,
                                       a.harmonic_gate, a.harmonic_planet, l.ret),
                   data |-> Some(l.ret),
                   cache |-> l.cache, load_calls |-> 1, opened |-> l.opened]
    ELSE [outcome |-> resolve(a.gate[1], a.line[1], a.active_planet,
                              a.harmonic_gate, a.harmonic_planet, a.dignity_data[1]),
          data |-> a.dignity_data,
          cache |-> c, load_calls |-> 0, opened |-> 0]

(***************************************************************************)
(* The program: calls of calculate_dignity and load_dignity_data in one    *)
(* process, and the resource changing under it                             *)
(***************************************************************************)
RecPolarity ==
    [no_polarity |-> None,
     exaltation_planets |-> Some({Sun}),
     detriment_planets |-> Some({NorthNodeSp}),
     juxtaposition_planets |-> None]

Stores == {EmptyStore, GateOnlyStore(12), StoreOf(12, 3, RecPolarity)}

ResourceStates == {None} \cup {Some(s) : s \in Stores}

Args == [gate : {None, Some(1), Some(12)},
         line : {None, Some(3), Some(4)},
         active_planet : {Sun, North_Node},
         harmonic_gate : {None},
         harmonic_planet : {None, Some(NorthNodeSp)},
         dignity_data : {None, Some(EmptyStore), Some(StoreOf(12, 3, RecPolarity))}]

NoArgs ==
    [gate |-> None, line |-> None, active_planet |-> EmptyName,
     harmonic_gate |-> None, harmonic_planet |-> None, dignity_data |-> None]

Init ==
    /\ cache = None
    /\ resource \in ResourceStates
    /\ op = "init"
    /\ args = NoArgs
    /\ result = None
    /\ used_data = None
    /\ load_ret = None
    /\ load_calls = 0
    /\ opened = 0
    /\ harmonic_arg = None
    /\ harmonic_ret = None
    /\ pc = <<>>
    /\ local = <<>>
    /\ ret = <<>>
    /\ saw_unset = <<>>
    /\ writes = 0
    /\ changed = FALSE

CalculateDignity(a) ==
    LET out == calculate_dignity(a, cache, resource)
    IN  /\ op' = "calculate_dignity"
        /\ args' = a
        /\ result' = out.outcome
        /\ used_data' = out.data
        /\ cache' = out.cache
        /\ load_calls' = out.load_calls
        /\ opened' = out.opened
        /\ UNCHANGED <<resource, load_ret, channel_vars, race_vars>>

Call == \E a \in Args : CalculateDignity(a)

LoadDignityData ==
    LET l == load_dignity_data(cache, resource)
    IN  /\ op' = "load_dignity_data"
        /\ cache' = l.cache
        /\ load_ret' = (IF l.raised THEN Raise("Exception") ELSE Return(l.ret))
        /\ load_calls' = 1
        /\ opened' = l.opened
        /\ UNCHANGED <<resource, args, result, used_data, channel_vars, race_vars>>

ResourceChanges ==
    /\ \E r \in ResourceStates : r # resource /\ resource' = r
    /\ op' = "resource"
    /\ load_calls' = 0
    /\ opened' = 0
    /\ UNCHANGED <<cache, args, result, used_data, load_ret, channel_vars, race_vars>>

Next == Call \/ LoadDignityData \/ ResourceChanges

Spec == Init /\ [][Next]_vars

(***************************************************************************)
(* The resolver as a function of its arguments: one call with the data     *)
(* supplied, over every record                                             *)
(***************************************************************************)
ResolveArgs ==
    [gate : {Some(1), Some(12)},
     line : {Some(3)},
     active_planet : PlanetInputs,
     harmonic_gate : {None, Some(7)},
     harmonic_planet : {None} \cup {Some(p) : p \in PlanetInputs},
     dignity_data : {Some(StoreOf(12, 3, rec)) : rec \in Records}]

\* calls without a gate or without a line
NullInputArgs ==
    [gate : {None, Some(12)},
     line : {None, Some(3)},
     active_planet : {Sun},
     harmonic_gate : {None},
     harmonic_planet : {None, Some(Sun)},
     dignity_data : {Some(StoreOf(12, 3, RecPolarity))}]

InitResolve ==
    /\ cache = None
    /\ resource = None
    /\ op = "init"
    /\ args \in ResolveArgs \cup NullInputArgs
    /\ result = None
    /\ used_data = None
    /\ load_ret = None
    /\ load_calls = 0
    /\ opened = 0
    /\ harmonic_arg = None
    /\ harmonic_ret = None
    /\ pc = <<>>
    /\ local = <<>>
    /\ ret = <<>>
    /\ saw_unset = <<>>
    /\ writes = 0
    /\ changed = FALSE

Resolve == op = "init" /\ CalculateDignity(args)

NextResolve == Resolve

SpecResolve == InitResolve /\ [][NextResolve]_vars

(***************************************************************************)
(* The channel table and get_harmonic_gate                                 *)
(***************************************************************************)
ChannelsWithTypo ==
    << <<64, 47>>, <<61, 24>>, <<63, 4>>, <<17, 62>>, <<43, 23>>, <<11, 56>>,
       <<16, 48>>, <<20, 57>>, <<20, 34>>, <<20, 10>>, <<31, 7>>, <<8, 1>>,
       <<33, 13>>, <<45, 21>>, <<35, 36>>, <<12, 22>>, <<32, 54>>, <<28, 38>>,
       <<57, 34>>, <<50, 27>>, <<18, 58>>, <<10, 34>>, <<15, 5>>, <<2, 14>>,
       <<46, 29>>, <<10, 57>>, <<25, 51>>, <<59, 6>>, <<42, 53>>, <<3, 60>>,
       <<9, 52>>, <<26, 44>>, <<40, 37>>, <<49, 19>>, <<55, 39>>, <<30, 14>> >>

ChannelsWithRepeatedPair ==
    << <<64, 47>>, <<61, 24>>, <<63, 4>>, <<17, 62>>, <<43, 23>>, <<11, 56>>,
       <<16, 48>>, <<20, 57>>, <<20, 34>>, <<20, 10>>, <<31, 7>>, <<8, 1>>,
       <<33, 13>>, <<45, 21>>, <<35, 36>>, <<12, 22>>, <<32, 54>>, <<28, 38>>,
       <<57, 34>>, <<50, 27>>, <<18, 58>>, <<10, 34>>, <<15, 5>>, <<2, 14>>,
       <<46, 29>>, <<10, 57>>, <<25, 51>>, <<59, 6>>, <<42, 53>>, <<3, 60>>,
       <<9, 52>>, <<26, 44>>, <<40, 37>>, <<49, 19>>, <<55, 39>>, <<34, 10>> >>

CHANNELS ==
    << <<64, 47>>, <<61, 24>>, <<63, 4>>, <<17, 62>>, <<43, 23>>, <<11, 56>>,
       <<16, 48>>, <<20, 57>>, <<20, 34>>, <<20, 10>>, <<31, 7>>, <<8, 1>>,
       <<33, 13>>, <<45, 21>>, <<35, 36>>, <<12, 22>>, <<32, 54>>, <<28, 38>>,
       <<57, 34>>, <<50, 27>>, <<18, 58>>, <<10, 34>>, <<15, 5>>, <<2, 14>>,
       <<46, 29>>, <<10, 57>>, <<25, 51>>, <<59, 6>>, <<42, 53>>, <<3, 60>>,
       <<9, 52>>, <<26, 44>>, <<40, 37>>, <<49, 19>>, <<55, 39>>, <<30, 41>> >>

RECURSIVE scan_gate1_only(_, _)
scan_gate1_only(gate, i) ==
    IF i > Len(CHANNELS)
    THEN None
    ELSE IF gate = CHANNELS[i][1]
    THEN Some(CHANNELS[i][2])
    ELSE scan_gate1_only(gate, i + 1)

get_harmonic_gate_gate1_only(gate) == scan_gate1_only(gate, 1)

RECURSIVE scan_last_match(_, _)
scan_last_match(gate, i) ==
    IF i < 1
    THEN None
    ELSE IF gate = CHANNELS[i][1]
    THEN Some(CHANNELS[i][2])
    ELSE IF gate = CHANNELS[i][2]
    THEN Some(CHANNELS[i][1])
    ELSE scan_last_match(gate, i - 1)

get_harmonic_gate_last_match(gate) == scan_last_match(gate, Len(CHANNELS))

\* the loop of lines 71-76 from the i-th tuple on
RECURSIVE scan_channels(_, _)
scan_channels(gate, i) ==
    IF i > Len(CHANNELS)
    THEN None
    ELSE IF gate = CHANNELS[i][1]
    THEN Some(CHANNELS[i][2])
    ELSE IF gate = CHANNELS[i][2]
    THEN Some(CHANNELS[i][1])
    ELSE scan_channels(gate, i + 1)

get_harmonic_gate(gate) == scan_channels(gate, 1)

GateInputs == 0..MaxGateInput

InitChannels ==
    /\ cache = None
    /\ resource = None
    /\ op = "init"
    /\ args = NoArgs
    /\ result = None
    /\ used_data = None
    /\ load_ret = None
    /\ load_calls = 0
    /\ opened = 0
    /\ harmonic_arg = None
    /\ harmonic_ret = None
    /\ pc = <<>>
    /\ local = <<>>
    /\ ret = <<>>
    /\ saw_unset = <<>>
    /\ writes = 0
    /\ changed = FALSE

GetHarmonicGate ==
    /\ \E gate \in GateInputs :
           /\ harmonic_arg' = Some(gate)
           /\ harmonic_ret' = get_harmonic_gate(gate)
    /\ op' = "get_harmonic_gate"
    /\ load_calls' = 0
    /\ opened' = 0
    /\ UNCHANGED <<cache, resource, args, result, used_data, load_ret, race_vars>>

NextChannels == GetHarmonicGate

SpecChannels == InitChannels /\ [][NextChannels]_vars

(***************************************************************************)
(* load_dignity_data called by concurrent callers over a cold cache, one   *)
(* step per access to the shared cache or to the resource                  *)
(***************************************************************************)
Threads == 1..NumThreads

InitRace ==
    /\ cache = None
    /\ resource \in ResourceStates
    /\ op = "init"
    /\ args = NoArgs
    /\ result = None
    /\ used_data = None
    /\ load_ret = None
    /\ load_calls = 0
    /\ opened = 0
    /\ harmonic_arg = None
    /\ harmonic_ret = None
    /\ pc = [t \in Threads |-> "test"]
    /\ local = [t \in Threads |-> None]
    /\ ret = [t \in Threads |-> None]
    /\ saw_unset = [t \in Threads |-> FALSE]
    /\ writes = 0
    /\ changed = FALSE

race_frame == <<op, args, result, used_data, load_ret, load_calls, opened, channel_vars>>

TestCacheAlwaysMisses(t) ==
    /\ pc[t] = "test"
    /\ saw_unset' = [saw_unset EXCEPT ![t] = (cache = None)]
    /\ pc' = [pc EXCEPT ![t] = "open"]
    /\ UNCHANGED <<cache, resource, local, ret, writes, changed, race_frame>>

\* line 48: `if _dignity_data_cache is not None`
TestCache(t) ==
    /\ pc[t] = "test"
    /\ saw_unset' = [saw_unset EXCEPT ![t] = (cache = None)]
    /\ pc' = [pc EXCEPT ![t] = IF cache # None THEN "hit" ELSE "open"]
    /\ UNCHANGED <<cache, resource, local, ret, writes, changed, race_frame>>

\* line 49: `return _dignity_data_cache`
ReturnCached(t) ==
    /\ pc[t] = "hit"
    /\ ret' = [ret EXCEPT ![t] = Return(cache[1])]
    /\ pc' = [pc EXCEPT ![t] = "done"]
    /\ UNCHANGED <<cache, resource, local, saw_unset, writes, changed, race_frame>>

\* lines 52-54, right-hand side: open the resource and json.load it; an
\* exception goes to lines 56-58
OpenAndParse(t) ==
    /\ pc[t] = "open"
    /\ IF resource # None
       THEN /\ local' = [local EXCEPT ![t] = resource]
            /\ pc' = [pc EXCEPT ![t] = "store"]
            /\ ret' = ret
       ELSE /\ ret' = [ret EXCEPT ![t] = Return(EmptyStore)]
            /\ pc' = [pc EXCEPT ![t] = "done"]
            /\ local' = local
    /\ UNCHANGED <<cache, resource, saw_unset, writes, changed, race_frame>>

\* line 54: the assignment to _dignity_data_cache
StoreCache(t) ==
    /\ pc[t] = "store"
    /\ cache' = local[t]
    /\ writes' = writes + 1
    /\ pc' = [pc EXCEPT ![t] = "return"]
    /\ UNCHANGED <<resource, local, ret, saw_unset, changed, race_frame>>

ReturnEmptyAfterLoad(t) ==
    /\ pc[t] = "return"
    /\ ret' = [ret EXCEPT ![t] = Return(EmptyStore)]
    /\ pc' = [pc EXCEPT ![t] = "done"]
    /\ UNCHANGED <<cache, resource, local, saw_unset, writes, changed, race_frame>>

\* line 55: `return _dignity_data_cache`
ReturnLoaded(t) ==
    /\ pc[t] = "return"
    /\ ret' = [ret EXCEPT ![t] = Return(cache[1])]
    /\ pc' = [pc EXCEPT ![t] = "done"]
    /\ UNCHANGED <<cache, resource, local, saw_unset, writes, changed, race_frame>>

\* the resource is replaced while callers are running
ResourceChangesInRace ==
    /\ \E t \in Threads : pc[t] # "done"
    /\ \E r \in ResourceStates : r # resource /\ resource' = r
    /\ changed' = TRUE
    /\ UNCHANGED <<cache, pc, local, ret, saw_unset, writes, race_frame>>

NextRace ==
    \/ \E t \in Threads : TestCache(t)
    \/ \E t \in Threads : ReturnCached(t)
    \/ \E t \in Threads : OpenAndParse(t)
    \/ \E t \in Threads : StoreCache(t)
    \/ \E t \in Threads : ReturnLoaded(t)
    \/ ResourceChangesInRace

SpecRace == InitRace /\ [][NextRace]_vars

(***************************************************************************)
(* The chart renderer's wrapper get_planet_dignity                         *)
(* (src/src/cartographer/services/chart_renderer.py).                      *)
(*                                                                         *)
(* A gate or line of the chart data is an int, a str or None: a record of  *)
(* its Python type and its text, which for an int is its decimal notation. *)
(***************************************************************************)
PyInt(text) == [type |-> "int", text |-> text]
PyStr(text) == [type |-> "str", text |-> text]
PyNone == [type |-> "NoneType", text |-> <<>>]

\* the placeholder of an empty cell in the chart data
Dash == PyStr(<<"-">>)

Digits == {"0", "1", "2", "3", "4", "5", "6", "7", "8", "9"}

DigitValue(ch) ==
    CASE ch = "0" -> 0 [] ch = "1" -> 1 [] ch = "2" -> 2 [] ch = "3" -> 3
      [] ch = "4" -> 4 [] ch = "5" -> 5 [] ch = "6" -> 6 [] ch = "7" -> 7
      [] ch = "8" -> 8 [] ch = "9" -> 9

RECURSIVE DecimalValue(_)
DecimalValue(text) ==
    IF text = <<>>
    THEN 0
    ELSE 10 * DecimalValue(SubSeq(text, 1, Len(text) - 1)) + DigitValue(text[Len(text)])

\* int(x) of lines 484-485: the integer, or the exception raised
int(x) ==
    IF x.type = "NoneType"
    THEN Raise("TypeError")
    ELSE IF x.text # <<>> /\ \A i \in 1..Len(x.text) : x.text[i] \in Digits
    THEN Return(DecimalValue(x.text))
    ELSE Raise("ValueError")

\* the parameters calculate_dignity declares, lines 94-101
calculate_dignity_parameters ==
    {"gate", "line", "active_planet", "harmonic_gate", "harmonic_planet", "dignity_data"}

\* the keywords of the call of lines 489-497
get_planet_dignity_keywords ==
    {"gate", "line", "active_planet", "harmonic_gate", "harmonic_planet", "dignity_data",
     "gate_level_planets"}

\* `not exaltations_data`
Falsy(opt_mapping) == opt_mapping = None \/ opt_mapping[1] = EmptyStore

\* lines 462-500: w is the record of the seven arguments
get_planet_dignity(w, c, r) ==
    IF Falsy(w.exaltations_data) \/ w.gate = Dash \/ w.line = Dash
    THEN Return(None)
    ELSE IF int(w.gate)[1] = "raise" \/ int(w.line)[1] = "raise"
    THEN Return(None)
    ELSE IF ~(get_planet_dignity_keywords \subseteq calculate_dignity_parameters)
    THEN Raise("TypeError")
    ELSE LET out == calculate_dignity(
                        [gate |-> Some(int(w.gate)[2]),
                         line |-> Some(int(w.line)[2]),
                         active_planet |-> w.planet_name,
                         harmonic_gate |-> w.harmonic_gate,
                         harmonic_planet |-> w.harmonic_planet,
                         dignity_data |-> w.exaltations_data], c, r).outcome
         IN  IF out[1] = "raise"
             THEN out
             ELSE Return(IF out[2].state # "neutral" THEN Some(out[2].state) ELSE None)

RecStarGlyph ==
    [no_polarity |-> None,
     exaltation_planets |-> Some({Sun}),
     detriment_planets |-> Some({NorthNodeSp}),
     juxtaposition_planets |-> Some({Earth})]

WrapperArgs ==
    [planet_name : {Sun, North_Node, Earth},
     gate : {PyInt(<<"1", "2">>), PyStr(<<"1", "2">>), PyStr(<<"x">>), Dash, PyNone},
     line : {PyInt(<<"3">>), PyStr(<<"3">>), PyInt(<<"4">>), Dash, PyNone},
     exaltations_data : {None, Some(EmptyStore), Some(StoreOf(12, 3, RecPolarity)),
                         Some(StoreOf(12, 3, RecStarGlyph))},
     harmonic_gate : {None},
     harmonic_planet : {None, Some(Sun)},
     gate_level_planets : {None, Some({Sun})}]

InitRenderer ==
    /\ cache = None
    /\ resource = None
    /\ op = "init"
    /\ args \in WrapperArgs
    /\ result = None
    /\ used_data = None
    /\ load_ret = None
    /\ load_calls = 0
    /\ opened = 0
    /\ harmonic_arg = None
    /\ harmonic_ret = None
    /\ pc = <<>>
    /\ local = <<>>
    /\ ret = <<>>
    /\ saw_unset = <<>>
    /\ writes = 0
    /\ changed = FALSE

GetPlanetDignity ==
    /\ op = "init"
    /\ op' = "get_planet_dignity"
    /\ result' = get_planet_dignity(args, cache, resource)
    /\ UNCHANGED <<cache, resource, args, used_data, load_ret, load_calls, opened,
                   channel_vars, race_vars>>

NextRenderer == GetPlanetDignity

SpecRenderer == InitRenderer /\ [][NextRenderer]_vars

(***************************************************************************)
(* Vocabulary of the properties                                            *)
(***************************************************************************)
\* the last calculate_dignity call returned the verdict v
Returned(v) == result = <<"return", v>>

Called == op = "calculate_dignity" /\ result # None

\* the space-separated form of a planet name
SpaceForm(p) == [i \in 1..Len(p) |-> IF p[i] = "_" THEN " " ELSE p[i]]

\* two names differ at most in underscore versus space
SameUpToSeparator(p, q) ==
    /\ Len(p) = Len(q)
    /\ \A i \in 1..Len(p) : p[i] = q[i] \/ {p[i], q[i]} \subseteq {"_", " "}

\* the call had a gate and a line and the mapping it used has their record
RecordExists ==
    /\ Called
    /\ args.gate # None
    /\ args.line # None
    /\ used_data # None
    /\ Str(args.gate[1]) \in DOMAIN used_data[1]
    /\ Str(args.line[1]) \in DOMAIN used_data[1][Str(args.gate[1])]

LineData == used_data[1][Str(args.gate[1])][Str(args.line[1])]

NoPolarityFlag == LineData.no_polarity = Some(TRUE)

ListOf(key) == IF LineData[key] = None THEN {} ELSE LineData[key][1]

Exaltation == ListOf("exaltation_planets")
Detriment == ListOf("detriment_planets")
Juxtaposition == ListOf("juxtaposition_planets")

\* the planets of the call as the cascade compares them
Active == SpaceForm(args.active_planet)
Harmonic == SpaceForm(args.harmonic_planet[1])

ActiveIn(xs) == Active \in xs
HarmonicIn(xs) == args.harmonic_planet # None /\ Harmonic \in xs

\* the record exists, is a polarity line, and neither planet has a star glyph
NoGlyphMatch ==
    /\ RecordExists
    /\ ~NoPolarityFlag
    /\ ~ActiveIn(Juxtaposition)
    /\ ~HarmonicIn(Juxtaposition)

\* the planets a verdict reports as trigger, in either field
Reported(v) == {v.active_trigger, v.harmonic_trigger} \ {None}

(***************************************************************************)
(* C1. No-polarity dominance: when the record of the (gate, line) exists   *)
(* and has no_polarity = true, the verdict is neutral with both triggers   *)
(* null and details "No polarity line", whatever the planets are and       *)
(* whatever the three lists of the record contain.                         *)
(***************************************************************************)
C1_NoPolarityDominance ==
    (RecordExists /\ NoPolarityFlag)
        => Returned(Verdict("neutral", None, None, "No polarity line"))

\* a no-polarity record whose star-glyph list has the active planet
C1_Witness ==
    /\ RecordExists
    /\ NoPolarityFlag
    /\ ActiveIn(Juxtaposition)
    /\ HarmonicIn(Exaltation)
    /\ Returned(Verdict("neutral", None, None, "No polarity line"))

(***************************************************************************)
(* C2. Star-glyph precedence, as claimed: whenever the record lists the    *)
(* active planet in juxtaposition_planets the verdict is juxtaposed with   *)
(* active_trigger the active planet.                                       *)
(***************************************************************************)
C2_Original ==
    (RecordExists /\ ActiveIn(Juxtaposition))
        => /\ result[1] = "return"
           /\ result[2].state = "juxtaposed"
           /\ result[2].active_trigger = Some(Active)

(***************************************************************************)
(* C2. Star-glyph precedence, amended: whenever the record is not a        *)
(* no-polarity record and lists the active planet in juxtaposition_planets *)
(* the verdict is juxtaposed with active_trigger the active planet, even   *)
(* if the planet is also in exaltation_planets or detriment_planets.       *)
(***************************************************************************)
C2_StarGlyphPrecedence ==
    (RecordExists /\ ~NoPolarityFlag /\ ActiveIn(Juxtaposition))
        => /\ result[1] = "return"
           /\ result[2].state = "juxtaposed"
           /\ result[2].active_trigger = Some(Active)

\* the active planet has the star glyph and is exalted and in detriment too
C2_Witness ==
    /\ RecordExists
    /\ ~NoPolarityFlag
    /\ ActiveIn(Juxtaposition)
    /\ ActiveIn(Exaltation)
    /\ ActiveIn(Detriment)
    /\ HarmonicIn(Juxtaposition)
    /\ Returned(Verdict("juxtaposed", Some(Active), None,
                        "Star glyph (explicit juxtaposition)"))

(***************************************************************************)
(* C3. Opposite-polarity juxtaposition: on a polarity line where neither   *)
(* planet has a star glyph, if the active planet is exalted and the        *)
(* harmonic planet in detriment, or the active planet in detriment and the *)
(* harmonic planet exalted, the verdict is juxtaposed with active_trigger  *)
(* the active planet and harmonic_trigger the harmonic planet.             *)
(***************************************************************************)
C3_OppositePolarity ==
    (/\ NoGlyphMatch
     /\ \/ ActiveIn(Exaltation) /\ HarmonicIn(Detriment)
        \/ ActiveIn(Detriment) /\ HarmonicIn(Exaltation))
        => /\ result[1] = "return"
           /\ result[2].state = "juxtaposed"
           /\ result[2].active_trigger = Some(Active)
           /\ result[2].harmonic_trigger = Some(Harmonic)

\* the second pairing only: active planet in detriment, harmonic planet exalted
C3_Witness ==
    /\ NoGlyphMatch
    /\ ActiveIn(Detriment) /\ ~ActiveIn(Exaltation)
    /\ HarmonicIn(Exaltation) /\ ~HarmonicIn(Detriment)
    /\ Returned(Verdict("juxtaposed", Some(Active), Some(Harmonic),
                        "Double fixing (opposite polarities)"))

(***************************************************************************)
(* C4. Star glyph on the harmonic side: on a polarity line, a harmonic     *)
(* planet in juxtaposition_planets gives juxtaposed with harmonic_trigger  *)
(* the harmonic planet and active_trigger null when the active planet has  *)
(* no star glyph; when both planets have it the active side wins           *)
(* (active_trigger the active planet, harmonic_trigger null).              *)
(***************************************************************************)
C4_HarmonicStarGlyph ==
    (RecordExists /\ ~NoPolarityFlag /\ HarmonicIn(Juxtaposition))
        => /\ result[1] = "return"
           /\ result[2].state = "juxtaposed"
           /\ result[2].active_trigger =
                  (IF ActiveIn(Juxtaposition) THEN Some(Active) ELSE None)
           /\ result[2].harmonic_trigger =
                  (IF ActiveIn(Juxtaposition) THEN None ELSE Some(Harmonic))

\* only the harmonic planet has the star glyph; the active one is exalted
C4_Witness ==
    /\ RecordExists
    /\ ~NoPolarityFlag
    /\ HarmonicIn(Juxtaposition)
    /\ ~ActiveIn(Juxtaposition)
    /\ ActiveIn(Exaltation)
    /\ Returned(Verdict("juxtaposed", None, Some(Harmonic),
                        "Star glyph via harmonic planet"))

(***************************************************************************)
(* C5. The juxtaposed state, exactly: a call returns juxtaposed if and     *)
(* only if the record exists, is a polarity line, and the active planet    *)
(* has the star glyph, or a supplied harmonic planet has it, or the two    *)
(* planets are exalted / in detriment in opposite ways.  A planet in one   *)
(* role that is in both exaltation_planets and detriment_planets does not  *)
(* yield juxtaposed by itself.                                             *)
(***************************************************************************)
C5_JuxtaposedExactly ==
    Called =>
        /\ result[1] = "return"
        /\ result[2].state = "juxtaposed"
             <=> /\ RecordExists
                 /\ ~NoPolarityFlag
                 /\ \/ ActiveIn(Juxtaposition)
                    \/ HarmonicIn(Juxtaposition)
                    \/ ActiveIn(Exaltation) /\ HarmonicIn(Detriment)
                    \/ ActiveIn(Detriment) /\ HarmonicIn(Exaltation)

\* the active planet alone is in both lists, the harmonic planet in neither
C5_Witness ==
    /\ NoGlyphMatch
    /\ ActiveIn(Exaltation) /\ ActiveIn(Detriment)
    /\ args.harmonic_planet # None
    /\ ~HarmonicIn(Exaltation) /\ ~HarmonicIn(Detriment)
    /\ result[2].state = "exalted"

(***************************************************************************)
(* C6. Single polarity: on a polarity line without star-glyph match, if a  *)
(* planet is exalted and none is in detriment the verdict is exalted; if   *)
(* a planet is in detriment and none is exalted it is detriment.  The      *)
(* trigger reported is the active planet when it carries the polarity and  *)
(* the harmonic planet otherwise, and details names that side.  Without a  *)
(* harmonic planet and with the active planet exalted, the verdict is      *)
(* exalted with active_trigger the active planet and harmonic_trigger      *)
(* null.                                                                   *)
(***************************************************************************)
C6_SinglePolarity ==
    LET exalted == ActiveIn(Exaltation) \/ HarmonicIn(Exaltation)
        detriment == ActiveIn(Detriment) \/ HarmonicIn(Detriment)
    IN  /\ (NoGlyphMatch /\ exalted /\ ~detriment)
              => /\ result[1] = "return"
                 /\ result[2].state = "exalted"
                 /\ Reported(result[2]) =
                        {IF ActiveIn(Exaltation) THEN Some(Active) ELSE Some(Harmonic)}
                 /\ result[2].details =
                        (IF ActiveIn(Exaltation) THEN "Exalted via active planet"
                                                 ELSE "Exalted via harmonic planet")
        /\ (NoGlyphMatch /\ detriment /\ ~exalted)
              => /\ result[1] = "return"
                 /\ result[2].state = "detriment"
                 /\ Reported(result[2]) =
                        {IF ActiveIn(Detriment) THEN Some(Active) ELSE Some(Harmonic)}
                 /\ result[2].details =
                        (IF ActiveIn(Detriment) THEN "Detriment via active planet"
                                                ELSE "Detriment via harmonic planet")
        /\ (NoGlyphMatch /\ args.harmonic_planet = None /\ ActiveIn(Exaltation))
              => /\ result[1] = "return"
                 /\ result[2].state = "exalted"
                 /\ result[2].active_trigger = Some(Active)
                 /\ result[2].harmonic_trigger = None

\* only the harmonic planet is exalted, and it differs from the active one
C6_Witness ==
    /\ NoGlyphMatch
    /\ HarmonicIn(Exaltation)
    /\ ~ActiveIn(Exaltation)
    /\ ~ActiveIn(Detriment)
    /\ ~HarmonicIn(Detriment)
    /\ Harmonic # Active
    /\ result[2].state = "exalted"
    /\ result[2].details = "Exalted via harmonic planet"

(***************************************************************************)
(* C7. Null input short-circuit: a call with gate None or line None        *)
(* returns neutral with both triggers null and details "Invalid gate or    *)
(* line" and looks nothing up: it does not call load_dignity_data, does    *)
(* not open the resource and leaves the cache as it was, also when         *)
(* dignity_data is omitted.                                                *)
(***************************************************************************)
C7_NullInputShortCircuit ==
    [][(op' = "calculate_dignity" /\ (args'.gate = None \/ args'.line = None))
          => /\ result' = <<"return",
                            Verdict("neutral", None, None, "Invalid gate or line")>>
             /\ used_data' = None
             /\ load_calls' = 0
             /\ opened' = 0
             /\ cache' = cache]_vars

\* line None, dignity_data omitted, over a cold cache and a readable resource
C7_Witness ==
    /\ Called
    /\ args.gate # None
    /\ args.line = None
    /\ args.dignity_data = None
    /\ resource # None
    /\ cache = None
    /\ load_calls = 0
    /\ Returned(Verdict("neutral", None, None, "Invalid gate or line"))

(***************************************************************************)
(* C8. Absent-data fallback: a call with a gate and a line for which the   *)
(* data store (supplied, or loaded when dignity_data is omitted) has no    *)
(* entry for the gate, or no entry for the line under the gate, returns    *)
(* neutral with both triggers null and details "No dignity data for this   *)
(* gate.line" and raises nothing.                                          *)
(***************************************************************************)
C8_AbsentDataFallback ==
    (Called /\ args.gate # None /\ args.line # None)
        => /\ used_data # None
           /\ ~RecordExists
                => Returned(Verdict("neutral", None, None,
                                    "No dignity data for this gate.line"))

\* the loaded store has the gate but not the line
C8_Witness ==
    /\ Called
    /\ args.gate # None
    /\ args.line # None
    /\ args.dignity_data = None
    /\ used_data # None
    /\ Str(args.gate[1]) \in DOMAIN used_data[1]
    /\ Str(args.line[1]) \notin DOMAIN used_data[1][Str(args.gate[1])]
    /\ Returned(Verdict("neutral", None, None, "No dignity data for this gate.line"))

(***************************************************************************)
(* C9. Planet-name normalization of inputs: replacing the active planet,   *)
(* or the harmonic planet, of a call by a name that differs from it only   *)
(* in underscore versus space ("North_Node" / "North Node") gives the      *)
(* same verdict: same state, triggers and details.                         *)
(***************************************************************************)
C9_NormalizationOfInputs ==
    Called =>
        /\ \A q \in PlanetInputs :
               SameUpToSeparator(args.active_planet, q)
                   => calculate_dignity([args EXCEPT !.active_planet = q],
                                        cache, resource).outcome = result
        /\ \A q \in PlanetInputs :
               (args.harmonic_planet # None
                /\ SameUpToSeparator(args.harmonic_planet[1], q))
                   => calculate_dignity([args EXCEPT !.harmonic_planet = Some(q)],
                                        cache, resource).outcome = result

\* "North_Node" active and "North_Node" harmonic, each matching a list
C9_Witness ==
    /\ NoGlyphMatch
    /\ args.active_planet = North_Node
    /\ args.harmonic_planet = Some(North_Node)
    /\ NorthNodeSp \in Exaltation
    /\ Returned(Verdict("exalted", Some(NorthNodeSp), None, "Exalted via active planet"))

(***************************************************************************)
(* C10. Underscore and space forms are equivalent in every membership      *)
(* test: on a polarity line, an active planet that equals an entry of      *)
(* exaltation_planets, detriment_planets or juxtaposition_planets up to    *)
(* underscore versus space matches that entry, so the verdict is not the   *)
(* "No dignity triggers" fallback.                                         *)
(***************************************************************************)
C10_ListEntriesEquivalent ==
    (/\ RecordExists
     /\ ~NoPolarityFlag
     /\ \E e \in Exaltation \cup Detriment \cup Juxtaposition :
            SameUpToSeparator(args.active_planet, e))
        => ~(result[1] = "return" /\ result[2].details = "No dignity triggers")

(***************************************************************************)
(* C11. Output contract: every call that returns yields a record with      *)
(* exactly the fields state, active_trigger, harmonic_trigger and details, *)
(* and state is one of neutral, exalted, detriment, juxtaposed, on every   *)
(* branch.                                                                 *)
(***************************************************************************)
C11_OutputContract ==
    Called =>
        /\ result[1] = "return"
        /\ DOMAIN result[2] = {"state", "active_trigger", "harmonic_trigger", "details"}
        /\ result[2].state \in {"neutral", "exalted", "detriment", "juxtaposed"}

\* the innermost branch of the cascade, reached with null triggers
C11_Witness ==
    /\ Called
    /\ RecordExists
    /\ result[2].details = "Multiple planets same polarity (exalted)"
    /\ result[2].harmonic_trigger = None
    /\ DOMAIN result[2] = {"state", "active_trigger", "harmonic_trigger", "details"}

(***************************************************************************)
(* C12. Trigger-field meaning: in every verdict active_trigger is null or  *)
(* the normalized planet supplied in the active role, and harmonic_trigger *)
(* is null or the normalized planet supplied in the harmonic role; a       *)
(* planet supplied only in the harmonic role is never in active_trigger.   *)
(***************************************************************************)
C12_TriggerFields ==
    (Called /\ result[1] = "return")
        => /\ result[2].active_trigger \in {None, Some(Active)}
           /\ result[2].harmonic_trigger \in
                  {None} \cup (IF args.harmonic_planet = None THEN {} ELSE {Some(Harmonic)})

(***************************************************************************)
(* Vocabulary of the channel properties                                    *)
(***************************************************************************)
\* the tuples of CHANNELS that contain the gate
TuplesWith(gate) ==
    {i \in 1..Len(CHANNELS) : gate \in {CHANNELS[i][1], CHANNELS[i][2]}}

\* the gates that the table lists in more than one tuple
SharedGates == {10, 20, 34, 57}

(***************************************************************************)
(* C13. Harmonic lookup symmetry: for every pair (g1, g2) of CHANNELS,     *)
(* get_harmonic_gate(g1) = g2 and get_harmonic_gate(g2) = g1; that is, a   *)
(* call with a gate returns the other gate of every tuple the gate is in.  *)
(***************************************************************************)
C13_LookupSymmetry ==
    harmonic_arg # None =>
        \A i \in 1..Len(CHANNELS) :
            /\ CHANNELS[i][1] = harmonic_arg[1] => harmonic_ret = Some(CHANNELS[i][2])
            /\ CHANNELS[i][2] = harmonic_arg[1] => harmonic_ret = Some(CHANNELS[i][1])

(***************************************************************************)
(* C14. Channel-table invariant, as claimed: each gate appears in at most  *)
(* one tuple of CHANNELS.                                                  *)
(***************************************************************************)
C14_Original ==
    harmonic_arg # None => Cardinality(TuplesWith(harmonic_arg[1])) <= 1

(***************************************************************************)
(* C14. Channel-table invariant, amended: each gate other than 10, 20, 34  *)
(* and 57 appears in at most one tuple of CHANNELS; each of these four     *)
(* appears in three tuples, so only the other gates have a unique partner. *)
(***************************************************************************)
C14_ChannelTable ==
    harmonic_arg # None =>
        Cardinality(TuplesWith(harmonic_arg[1])) <=
            (IF harmonic_arg[1] \in SharedGates THEN 3 ELSE 1)
        /\ (harmonic_arg[1] \in SharedGates
                => Cardinality(TuplesWith(harmonic_arg[1])) = 3)

\* gate 14 is looked up: it is in the tuple (2, 14) only
C14_Witness ==
    /\ harmonic_arg = Some(14)
    /\ harmonic_ret = Some(2)
    /\ Cardinality(TuplesWith(14)) = 1

(***************************************************************************)
(* C15. get_harmonic_gate(g) returns None exactly when g is in no tuple of *)
(* CHANNELS; otherwise it returns a gate h such that (g, h) or (h, g) is a *)
(* tuple of CHANNELS.  get_harmonic_gate(64) = 47.                         *)
(***************************************************************************)
C15_HarmonicGate ==
    harmonic_arg # None =>
        /\ harmonic_ret = None <=> TuplesWith(harmonic_arg[1]) = {}
        /\ harmonic_ret # None
              => \E i \in 1..Len(CHANNELS) :
                     \/ CHANNELS[i] = <<harmonic_arg[1], harmonic_ret[1]>>
                     \/ CHANNELS[i] = <<harmonic_ret[1], harmonic_arg[1]>>
        /\ harmonic_arg = Some(64) => harmonic_ret = Some(47)

\* the gate is the second member of its tuple
C15_Witness ==
    /\ harmonic_arg = Some(47)
    /\ harmonic_ret = Some(64)

(***************************************************************************)
(* Vocabulary of the load properties                                       *)
(***************************************************************************)
\* the step is a load_dignity_data call, direct or made by calculate_dignity
LoadStep == load_calls' = 1

AllDone == \A t \in Threads : pc[t] = "done"

(***************************************************************************)
(* C16. Load once, as claimed: over any sequence of load_dignity_data      *)
(* calls the resource is read on the first call only; a call made after    *)
(* an earlier call does not read it.                                       *)
(***************************************************************************)
C16_Original ==
    [][(op' = "load_dignity_data" /\ load_ret # None) => opened' = 0]_vars

(***************************************************************************)
(* C16. Load once, amended: the resource is read and parsed by every call  *)
(* made while nothing is cached (the first call, and each call after a     *)
(* failed read); once a read has succeeded, every later call returns the   *)
(* cached result without reading the resource.                             *)
(***************************************************************************)
C16_LoadOnce ==
    [][LoadStep =>
          IF cache = None
          THEN /\ opened' = 1
               /\ resource # None => cache' = resource
          ELSE /\ opened' = 0
               /\ cache' = cache
               /\ op' = "load_dignity_data" => load_ret' = <<"return", cache[1]>>]_vars

\* a call served from the cache although the resource holds something else
C16_Witness ==
    /\ op = "load_dignity_data"
    /\ opened = 0
    /\ cache # None
    /\ resource # None
    /\ resource # cache
    /\ load_ret = <<"return", cache[1]>>

(***************************************************************************)
(* C17. Load failure is fail-open: a load_dignity_data call that fails to  *)
(* read or parse the resource returns an empty mapping and raises no       *)
(* exception.                                                              *)
(***************************************************************************)
C17_LoadFailOpen ==
    [][(op' = "load_dignity_data" /\ opened' = 1 /\ resource = None)
          => load_ret' = <<"return", EmptyStore>>]_vars

\* a direct call over an unreadable resource returned {}
C17_Witness ==
    /\ op = "load_dignity_data"
    /\ opened = 1
    /\ resource = None
    /\ cache = None
    /\ load_ret = <<"return", EmptyStore>>

(***************************************************************************)
(* C18. End-to-end fail-open: a calculate_dignity call with a gate and a   *)
(* line, with dignity_data omitted, whose load fails because the resource  *)
(* cannot be read or parsed, returns neutral with details "No dignity data *)
(* for this gate.line" and raises nothing, whatever the planets are.       *)
(***************************************************************************)
C18_EndToEndFailOpen ==
    [][(/\ op' = "calculate_dignity"
        /\ args'.gate # None
        /\ args'.line # None
        /\ args'.dignity_data = None
        /\ cache = None
        /\ resource = None)
          => result' = <<"return", Verdict("neutral", None, None,
                                           "No dignity data for this gate.line")>>]_vars

\* such a call: the gate and line exist in the data the resource used to hold
C18_Witness ==
    /\ Called
    /\ args.gate = Some(12)
    /\ args.line = Some(3)
    /\ args.dignity_data = None
    /\ load_calls = 1
    /\ opened = 1
    /\ resource = None
    /\ cache = None
    /\ Returned(Verdict("neutral", None, None, "No dignity data for this gate.line"))

(***************************************************************************)
(* C19. Cache writes, as claimed: across any interleaving of concurrent    *)
(* load_dignity_data calls the cache is not written a second time.         *)
(***************************************************************************)
C19_Original == writes <= 1

(***************************************************************************)
(* C19. Cache writes, amended: across any interleaving of concurrent       *)
(* load_dignity_data calls, only a call that found the cache unset reads   *)
(* the resource and writes the cache, and it writes it at most once;       *)
(* callers racing on a cold cache may each write it, every write storing   *)
(* the resource's content as the writer read it (the same value when the   *)
(* resource does not change).                                              *)
(***************************************************************************)
C19_CacheWrites ==
    /\ \A t \in Threads :
           (pc[t] \in {"open", "store", "return"} \/ local[t] # None) => saw_unset[t]
    /\ writes = Cardinality({t \in Threads : pc[t] = "return"
                                            \/ (pc[t] = "done" /\ local[t] # None)})
    /\ writes <= Cardinality({t \in Threads : saw_unset[t]})
    /\ cache # None => \E t \in Threads : cache = local[t]
    /\ ~changed => cache \in {None, resource}

\* both callers found the cache unset and both wrote it
C19_Witness ==
    /\ AllDone
    /\ ~changed
    /\ writes = NumThreads
    /\ cache = resource

C21_Original ==
    [][op' = "calculate_dignity" => cache' = cache]_vars

\* the call has to load: it has a gate and a line and no dignity_data
MustLoad(a) == a.gate # None /\ a.line # None /\ a.dignity_data = None

(***************************************************************************)
(* C21. No side effects, amended: a call of calculate_dignity changes      *)
(* neither the resource nor a cache that is already set, and looks the     *)
(* record up in the mapping supplied (or the one loaded) as it is; the one *)
(* effect besides the verdict is that a call without dignity_data, made    *)
(* with a gate and a line while the cache is unset and the resource is     *)
(* readable, sets the cache to the mapping it loaded.                      *)
(***************************************************************************)
C21_FrameEffect ==
    [][op' = "calculate_dignity" =>
          /\ resource' = resource
          /\ cache' = (IF MustLoad(args') /\ cache = None THEN resource ELSE cache)
          /\ used_data' # None =>
                 used_data' = (IF args'.dignity_data # None THEN args'.dignity_data
                               ELSE IF cache' # None THEN cache' ELSE Some(EmptyStore))]_vars

\* a call that loaded: the cache now holds the resource's mapping
C21_Witness ==
    /\ op = "calculate_dignity"
    /\ MustLoad(args)
    /\ load_calls = 1
    /\ opened = 1
    /\ resource = Some(StoreOf(12, 3, RecPolarity))
    /\ cache = resource
    /\ used_data = cache

(***************************************************************************)
(* C22. The channel table holds exactly 36 entries, each a pair of two     *)
(* distinct gates in 1..64, and no unordered pair occurs twice; so every   *)
(* partner a lookup returns is a gate in 1..64 other than the gate asked.  *)
(***************************************************************************)
C22_ChannelTableShape ==
    /\ Len(CHANNELS) = 36
    /\ \A i \in 1..Len(CHANNELS) :
           /\ Len(CHANNELS[i]) = 2
           /\ CHANNELS[i][1] \in 1..64
           /\ CHANNELS[i][2] \in 1..64
           /\ CHANNELS[i][1] # CHANNELS[i][2]
    /\ \A i, j \in 1..Len(CHANNELS) :
           i # j => {CHANNELS[i][1], CHANNELS[i][2]} # {CHANNELS[j][1], CHANNELS[j][2]}
    /\ harmonic_ret # None => harmonic_ret[1] \in (1..64) \ {harmonic_arg[1]}

\* the lookup that is answered from the 36th entry
C22_Witness ==
    /\ harmonic_arg = Some(41)
    /\ harmonic_ret = Some(30)
    /\ CHANNELS[36] = <<30, 41>>

\* polarity line, no star glyph, no opposite pairing, both polarities present
SamePolarityCase ==
    /\ NoGlyphMatch
    /\ ~(ActiveIn(Exaltation) /\ HarmonicIn(Detriment))
    /\ ~(ActiveIn(Detriment) /\ HarmonicIn(Exaltation))
    /\ ActiveIn(Exaltation) \/ HarmonicIn(Exaltation)
    /\ ActiveIn(Detriment) \/ HarmonicIn(Detriment)

NoMembership ==
    /\ RecordExists
    /\ ~NoPolarityFlag
    /\ \A xs \in {Exaltation, Detriment, Juxtaposition} : ~ActiveIn(xs) /\ ~HarmonicIn(xs)

(***************************************************************************)
(* C24. Fallback: for an existing polarity-line record, if neither the     *)
(* active nor the harmonic planet is in any of the three lists the verdict *)
(* is neutral with both triggers null and details "No dignity triggers",   *)
(* and these details are returned in that case only.                       *)
(***************************************************************************)
C24_Fallback ==
    Called =>
        /\ result[1] = "return"
        /\ NoMembership => Returned(Verdict("neutral", None, None, "No dignity triggers"))
        /\ result[2].details = "No dignity triggers" => NoMembership

\* unrecognized planets in both roles over a record whose lists are filled
C24_Witness ==
    /\ NoMembership
    /\ args.active_planet = Earth
    /\ args.harmonic_planet = Some(Earth)
    /\ Exaltation = {Sun}
    /\ Detriment = {Sun, NorthNodeSp}
    /\ Returned(Verdict("neutral", None, None, "No dignity triggers"))

\* a gate or line that int() accepts
Convertible(x) ==
    /\ x.type \in {"int", "str"}
    /\ x.text # <<>>
    /\ \A i \in 1..Len(x.text) : x.text[i] \in Digits

\* what calculate_dignity returns for the wrapper's arguments
WrappedVerdict ==
    calculate_dignity([gate |-> Some(DecimalValue(args.gate.text)),
                       line |-> Some(DecimalValue(args.line.text)),
                       active_planet |-> args.planet_name,
                       harmonic_gate |-> args.harmonic_gate,
                       harmonic_planet |-> args.harmonic_planet,
                       dignity_data |-> args.exaltations_data],
                      cache, resource).outcome[2]

(***************************************************************************)
(* C25. The renderer's wrapper: get_planet_dignity, called with non-empty  *)
(* data and a gate and line convertible to integers, returns the state     *)
(* calculate_dignity computes when that is exalted, detriment or           *)
(* juxtaposed and None when it is neutral; with empty data, a dash or a    *)
(* gate or line that is not convertible it returns None without raising.   *)
(***************************************************************************)
C25_RendererWrapper ==
    op = "get_planet_dignity" =>
        IF /\ ~Falsy(args.exaltations_data)
           /\ Convertible(args.gate)
           /\ Convertible(args.line)
        THEN result = Return(IF WrappedVerdict.state = "neutral"
                             THEN None
                             ELSE Some(WrappedVerdict.state))
        ELSE result = Return(None)

(***************************************************************************)
(* C26. Trigger membership: whenever the state returned is exalted, the    *)
(* planet in active_trigger is in the record's exaltation_planets, and     *)
(* whenever it is detriment, the planet in active_trigger is in the        *)
(* record's detriment_planets, for every record, overlapping lists         *)
(* included.                                                               *)
(***************************************************************************)
C26_TriggerMembership ==
    (Called /\ result[1] = "return") =>
        /\ result[2].state = "exalted" =>
               /\ RecordExists
               /\ result[2].active_trigger # None
               /\ result[2].active_trigger[1] \in Exaltation
        /\ result[2].state = "detriment" =>
               /\ RecordExists
               /\ result[2].active_trigger # None
               /\ result[2].active_trigger[1] \in Detriment

SamePolarityDetails ==
    {"Multiple planets same polarity (exalted)",
     "Multiple planets same polarity (detriment)"}

OtherHarmonicGates == {None, Some(7), Some(12), Some(22)}

(***************************************************************************)
(* C28. The verdict does not depend on harmonic_gate: a call that differs  *)
(* from the one made only in harmonic_gate (any gate, or None) returns the *)
(* same verdict.                                                           *)
(***************************************************************************)
C28_HarmonicGateIgnored ==
    Called =>
        \A g \in OtherHarmonicGates :
            calculate_dignity([args EXCEPT !.harmonic_gate = g], cache, resource).outcome
                = result

\* a call whose harmonic planet decides the verdict, made with a harmonic gate
C28_Witness ==
    /\ RecordExists
    /\ args.harmonic_gate = Some(7)
    /\ HarmonicIn(Exaltation)
    /\ ~ActiveIn(Exaltation) /\ ~ActiveIn(Detriment)
    /\ result[2].details = "Exalted via harmonic planet"

\* position of the first tuple of the table that contains the gate
FirstTupleWith(gate) ==
    CHOOSE i \in 1..Len(CHANNELS) :
        /\ gate \in {CHANNELS[i][1], CHANNELS[i][2]}
        /\ \A j \in 1..(i - 1) : gate \notin {CHANNELS[j][1], CHANNELS[j][2]}

(***************************************************************************)
(* C29. For a gate that occurs in more than one tuple (10, 20, 34, 57),    *)
(* get_harmonic_gate returns the partner from the first tuple in table     *)
(* order that contains the gate, and no other partner: 20 for the gates    *)
(* 10, 34 and 57, and 57 for gate 20.                                      *)
(***************************************************************************)
C29_FirstTupleWins ==
    (harmonic_arg # None /\ harmonic_arg[1] \in SharedGates) =>
        LET gate == harmonic_arg[1]
            first == CHANNELS[FirstTupleWith(gate)]
        IN  /\ harmonic_ret = Some(IF first[1] = gate THEN first[2] ELSE first[1])
            /\ harmonic_ret = Some(IF gate = 20 THEN 57 ELSE 20)

\* gate 34: its first tuple is (20, 34), later ones are (57, 34) and (10, 34)
C29_Witness ==
    /\ harmonic_arg = Some(34)
    /\ harmonic_ret = Some(20)
    /\ Cardinality(TuplesWith(34)) = 3

(***************************************************************************)
(* C30. A failed load is not cached: a load_dignity_data call that fails   *)
(* leaves the cache unset, so the next call reads the resource again; if   *)
(* the resource is readable then, that call returns the parsed data and    *)
(* caches it, and all later calls return that data.                        *)
(***************************************************************************)
C30_FailedLoadNotCached ==
    [][(op' = "load_dignity_data" /\ load_calls' = 1) =>
          /\ (cache = None /\ resource = None) =>
                 /\ cache' = None
                 /\ opened' = 1
          /\ (cache = None /\ resource # None) =>
                 /\ opened' = 1
                 /\ load_ret' = <<"return", resource[1]>>
                 /\ cache' = resource
          /\ cache # None =>
                 /\ load_ret' = <<"return", cache[1]>>
                 /\ cache' = cache]_vars

\* a call that failed and left the cache unset
C30_Witness ==
    /\ op = "load_dignity_data"
    /\ resource = None
    /\ opened = 1
    /\ load_ret = <<"return", EmptyStore>>
    /\ cache = None

====
